---- MODULE Spec2Model ----
(***************************************************************************)
(* Model of grafo_ataque.py: the AttackGraph adjacency structure           *)
(* (a defaultdict(list) plus a networkx DiGraph used for drawing) and the  *)
(* breadth-first search find_shortest_attack_path_bfs, one action per      *)
(* iteration of its while loop.                                            *)
(***************************************************************************)
EXTENDS Naturals, Integers, Sequences, FiniteSets, TLC

VARIABLES
    graph,         \* self.graph: node |-> list of (target, exploit) entries
    visual_graph,  \* self.visual_graph: the edges of the DiGraph, (u, v) |-> label
    pc,            \* "idle", "loop" (inside the while loop) or "done" (returned)
    start_node,    \* the arguments of the call in progress
    target_node,
    queue,         \* the deque of paths
    visited,       \* the visited set
    result,        \* the value returned
    outcome,       \* the branch that returned: "unknown_start", "found", "no_path"
    enqueued,      \* the last node of every path appended to the queue, in order
    memo           \* at most one earlier result kept by the caller

vars == <<graph, visual_graph, pc, start_node, target_node, queue, visited,
          result, outcome, enqueued, memo>>

\* ------------------------------------------------------------------ inputs

\* Edge insertions are bounded by the number of edges already stored; the runs
\* that check termination, and those that keep an earlier result, build graphs
\* of up to MaxSmallEdges edges.
MaxEdges == 4
MaxSmallEdges == 3

\* Node and exploit names offered to add_attack_step. Node names are opaque
\* strings to the program, so a name is first used only once the names before
\* it are in the graph: every graph over these names is a renaming of one built
\* this way.
NodeOrder == <<"A", "B", "C", "D">>
AddNodes == {NodeOrder[i] : i \in DOMAIN NodeOrder}
Exploits == {"x1", "x2"}

\* A node name that is never given to add_attack_step.
Stranger == "Z"

\* ------------------------------------------------------- data structure

\* An empty defaultdict(list): a function with an empty domain.
EmptyGraph == [n \in {} |-> <<>>]

\* An empty nx.DiGraph: (u, v) |-> label, no edges.
EmptyVisual == [e \in {} |-> ""]

\* Reading self.graph[n] yields the stored list, or a fresh empty list.
GetItem(g, n) == IF n \in DOMAIN g THEN g[n] ELSE <<>>

\* defaultdict.__getitem__ on a missing key stores the default under that key.
Vivify(g, n) == IF n \in DOMAIN g THEN g ELSE [k \in DOMAIN g \cup {n} |-> IF k = n THEN <<>> ELSE g[k]]

\* self.graph[source].append((target, exploit_name)), inserting at the front.
AppendEdgeFront(g, source, target, exploit_name) ==
    [k \in DOMAIN g \cup {source} |->
        IF k = source THEN <<<<target, exploit_name>>>> \o GetItem(g, source) ELSE g[k]]

\* self.graph[source].append((target, exploit_name))
AppendEdge(g, source, target, exploit_name) ==
    [k \in DOMAIN g \cup {source} |->
        IF k = source THEN Append(GetItem(g, source), <<target, exploit_name>>) ELSE g[k]]

\* self.visual_graph.add_edge(source, target, label=exploit_name): one edge per
\* ordered pair, the label of the latest insertion.
AddVisualEdge(vg, source, target, exploit_name) ==
    [e \in DOMAIN vg \cup {<<source, target>>} |->
        IF e = <<source, target>> THEN exploit_name ELSE vg[e]]

\* [u for u, v in self.visual_graph.edges]
VisualSources(vg) == {e[1] : e \in DOMAIN vg}

\* The negation of the guard of the fail-fast branch.
KnownStart(g, vg, s) == ~(s \notin DOMAIN g /\ s \notin VisualSources(vg))

\* The number of stored edges.
RECURSIVE SumLen(_, _)
SumLen(g, keys) ==
    IF keys = {} THEN 0
    ELSE LET k == CHOOSE x \in keys : TRUE
         IN Len(g[k]) + SumLen(g, keys \ {k})

TotalEdges(g) == SumLen(g, DOMAIN g)

\* ------------------------------------------------------------ the search

\* The result of a call: None, or a list of nodes.
None == [isNone |-> TRUE, path |-> <<>>]
Some(p) == [isNone |-> FALSE, path |-> p]

\* The for loop over the outgoing edges of the dequeued node: the visited set
\* and the queue after the loop.
RECURSIVE Explore(_, _, _, _)
Explore(edges, path, vis, q) ==
    IF edges = <<>> THEN [visited |-> vis, queue |-> q]
    ELSE LET neighbor == Head(edges)[1]
         IN IF neighbor \notin vis
            THEN Explore(Tail(edges), path, vis \cup {neighbor},
                         Append(q, Append(path, neighbor)))
            ELSE Explore(Tail(edges), path, vis, q)

\* The for loop with new_path bound to path itself instead of a copy of it:
\* every entry enqueued in this iteration is the one list, holding all of the
\* neighbours appended in this iteration.
ExploreAliased(edges, path, vis, q) ==
    LET r == Explore(edges, path, vis, q)
        added == [j \in 1..(Len(r.queue) - Len(q)) |->
                     r.queue[Len(q) + j][Len(r.queue[Len(q) + j])]]
    IN [visited |-> r.visited,
        queue |-> q \o [j \in 1..Len(added) |-> path \o added]]

\* The for loop walking the adjacency list from its last entry to its first.
RECURSIVE ExploreReversed(_, _, _, _)
ExploreReversed(edges, path, vis, q) ==
    IF edges = <<>> THEN [visited |-> vis, queue |-> q]
    ELSE LET neighbor == edges[Len(edges)][1]
             front == SubSeq(edges, 1, Len(edges) - 1)
         IN IF neighbor \notin vis
            THEN ExploreReversed(front, path, vis \cup {neighbor},
                                 Append(q, Append(path, neighbor)))
            ELSE ExploreReversed(front, path, vis, q)

\* The for loop testing each neighbour against the visited set as it was when
\* the node was dequeued, and marking the neighbours only after the loop.
ExploreStale(edges, path, vis, q) ==
    LET fresh == SelectSeq(edges, LAMBDA e : e[1] \notin vis)
    IN [visited |-> vis \cup {fresh[j][1] : j \in DOMAIN fresh},
        queue |-> q \o [j \in DOMAIN fresh |-> Append(path, fresh[j][1])]]

\* The for loop over the outgoing edges of the dequeued node, as the search
\* runs it.
ExploreNeighbors(edges, path, vis, q) == Explore(edges, path, vis, q)

\* The last nodes of the paths q holds from position i on.
LastNodesFrom(q, i) == [j \in 1..(Len(q) - i + 1) |-> q[i + j - 1][Len(q[i + j - 1])]]

\* ------------------------------------------------------------ state machine

\* No call in progress: the locals of the search do not exist.
Idle ==
    /\ pc = "idle"
    /\ start_node = ""
    /\ target_node = ""
    /\ queue = <<>>
    /\ visited = {}
    /\ result = None
    /\ outcome = "none"
    /\ enqueued = <<>>

\* The sample topology built by the main block, in insertion order.
SampleEdges ==
    << <<"Internet", "WebServer", "CVE-2023-XYZ (RCE)">>,
       <<"Internet", "VPN_Gateway", "Weak_Credentials">>,
       <<"WebServer", "AppServer", "Config_Error">>,
       <<"WebServer", "FileServer", "SMB_Exploit">>,
       <<"VPN_Gateway", "Internal_PC", "Phishing_Link">>,
       <<"AppServer", "Database_SQL", "SQL_Injection">>,
       <<"FileServer", "Database_SQL", "Stored_Creds">>,
       <<"Internal_PC", "Database_SQL", "Admin_Access">>,
       <<"Internal_PC", "Printer", "Default_Password">>,
       <<"Printer", "Database_SQL", "Legacy_Connect">> >>

\* The adjacency mapping after add_attack_step on each edge of a list in turn.
RECURSIVE BuildGraph(_, _)
BuildGraph(edges, g) ==
    IF edges = <<>> THEN g
    ELSE BuildGraph(Tail(edges), AppendEdge(g, Head(edges)[1], Head(edges)[2], Head(edges)[3]))

\* The drawing graph after add_attack_step on each edge of a list in turn.
RECURSIVE BuildVisual(_, _)
BuildVisual(edges, vg) ==
    IF edges = <<>> THEN vg
    ELSE BuildVisual(Tail(edges), AddVisualEdge(vg, Head(edges)[1], Head(edges)[2], Head(edges)[3]))

SampleGraph == BuildGraph(SampleEdges, EmptyGraph)
SampleVisual == BuildVisual(SampleEdges, EmptyVisual)

\* Every node that appears in a stored edge, as source or as target, or as a key.
Targets(g) == UNION {{g[k][i][1] : i \in DOMAIN g[k]} : k \in DOMAIN g}
Mentioned(g) == DOMAIN g \cup Targets(g)

\* Start and target nodes offered to the search: every node of the graph and one
\* node that is in no edge.
SearchNodes(g) == Mentioned(g) \cup {Stranger}

\* The first k node names.
FirstNodes(k) == {NodeOrder[i] : i \in 1..(IF k < Len(NodeOrder) THEN k ELSE Len(NodeOrder))}

\* The (source, target) pairs offered to add_attack_step on g: nodes already in
\* g and the next unused names, in order.
AddInputs(g) ==
    LET k == Cardinality(Mentioned(g) \cap AddNodes)
    IN UNION {{<<s, t>> : t \in FirstNodes(IF s \in Mentioned(g) THEN k + 1 ELSE k + 2)} :
                 s \in FirstNodes(k + 1)}

\* The exploit names offered for an edge from s to t: a second name only for a
\* pair that already has an edge, where it makes a parallel edge with another
\* label. The search never reads the label.
ExploitInputs(vg, s, t) == IF <<s, t>> \in DOMAIN vg THEN Exploits ELSE {"x1"}

\* A freshly constructed AttackGraph, or the main block's graph once its ten
\* add_attack_step calls have run; no search in progress.
Init ==
    /\ \/ graph = EmptyGraph /\ visual_graph = EmptyVisual
       \/ graph = SampleGraph /\ visual_graph = SampleVisual
    /\ memo = {}
    /\ Idle

add_attack_step(source, target, exploit_name) ==
    /\ pc = "idle"
    /\ graph' = AppendEdge(graph, source, target, exploit_name)
    /\ visual_graph' = AddVisualEdge(visual_graph, source, target, exploit_name)
    /\ memo' = {}
    /\ UNCHANGED <<pc, start_node, target_node, queue, visited, result, outcome, enqueued>>

\* Entry of find_shortest_attack_path_bfs: the fail-fast check, then the
\* initialisation of the queue and of the visited set.
find_shortest_attack_path_bfs(s, t) ==
    /\ pc = "idle"
    /\ start_node' = s
    /\ target_node' = t
    /\ IF ~KnownStart(graph, visual_graph, s)
       THEN /\ pc' = "done"
            /\ outcome' = "unknown_start"
            /\ result' = None
            /\ UNCHANGED <<queue, visited, enqueued>>
       ELSE /\ pc' = "loop"
            /\ queue' = <<<<s>>>>
            /\ visited' = {s}
            /\ enqueued' = <<s>>
            /\ UNCHANGED <<result, outcome>>
    /\ UNCHANGED <<graph, visual_graph, memo>>

\* while queue: the loop runs while the queue holds an entry.
LoopCondition(q) == q # <<>>

\* Reading the head of the queue without removing it.
PeekLeft(q) == q

\* queue.popleft(): the queue that remains.

PopLeft(q) == Tail(q)

\* One iteration of the while loop: dequeue a path, return it if it ends at the
\* target, otherwise read the node's adjacency list and enqueue its unvisited
\* neighbours.
BfsStep ==
    /\ pc = "loop"
    /\ LoopCondition(queue)
    /\ LET path == Head(queue)
           rest == PopLeft(queue)
           current_node == path[Len(path)]
       IN IF current_node = target_node
          THEN /\ pc' = "done"
               /\ outcome' = "found"
               /\ result' = Some(path)
               /\ queue' = rest
               /\ UNCHANGED <<graph, visited, enqueued>>
          ELSE LET r == ExploreNeighbors(GetItem(graph, current_node), path, visited, rest)
               IN /\ graph' = Vivify(graph, current_node)
                  /\ queue' = r.queue
                  /\ visited' = r.visited
                  /\ enqueued' = enqueued \o LastNodesFrom(r.queue, Len(rest) + 1)
                  /\ UNCHANGED <<pc, result, outcome>>
    /\ UNCHANGED <<visual_graph, start_node, target_node, memo>>

\* The while loop ends with the queue empty: no path.
BfsExhausted ==
    /\ pc = "loop"
    /\ ~LoopCondition(queue)
    /\ pc' = "done"
    /\ outcome' = "no_path"
    /\ result' = None
    /\ UNCHANGED <<graph, visual_graph, start_node, target_node, queue, visited, enqueued, memo>>

\* The call has returned; its locals are discarded and the object is ready for
\* the next call.
Return ==
    /\ pc = "done"
    /\ pc' = "idle"
    /\ start_node' = ""
    /\ target_node' = ""
    /\ queue' = <<>>
    /\ visited' = {}
    /\ result' = None
    /\ outcome' = "none"
    /\ enqueued' = <<>>
    /\ UNCHANGED <<graph, visual_graph, memo>>

\* The caller keeps the result of a finished search (shortest_path = ...) to
\* compare with a later search of the same pair.
Remember ==
    /\ pc = "done"
    /\ memo = {}
    /\ memo' = {[s |-> start_node, t |-> target_node, res |-> result]}
    /\ UNCHANGED <<graph, visual_graph, pc, start_node, target_node, queue, visited,
                   result, outcome, enqueued>>

\* add_attack_step on some input, while the graph holds fewer than limit edges.
AddSome(limit) ==
    /\ TotalEdges(graph) < limit
    /\ \E st \in AddInputs(graph) :
          \E x \in ExploitInputs(visual_graph, st[1], st[2]) :
             add_attack_step(st[1], st[2], x)

\* find_shortest_attack_path_bfs called on some input.
SearchSome ==
    \E s \in SearchNodes(graph), t \in SearchNodes(graph) : find_shortest_attack_path_bfs(s, t)

Next ==
    \/ AddSome(MaxEdges)
    \/ SearchSome
    \/ BfsStep
    \/ BfsExhausted
    \/ Return

Spec == Init /\ [][Next]_vars

\* The same program on graphs of up to MaxSmallEdges edges.
NextSmall ==
    \/ AddSome(MaxSmallEdges)
    \/ SearchSome
    \/ BfsStep
    \/ BfsExhausted
    \/ Return

\* With a caller that keeps one earlier result.
NextRepeat == NextSmall \/ Remember

SpecRepeat == Init /\ [][NextRepeat]_vars

\* The while loop runs to its end once entered: the interpreter keeps executing
\* the single-threaded loop.
SpecFair == Init /\ [][NextSmall]_vars /\ WF_vars(BfsStep) /\ WF_vars(BfsExhausted)

\* ------------------------------------------------- reference definitions

\* The outgoing-edge sequences are the same in g and h, whatever their keys.
SameEdges(g, h) == \A n \in Mentioned(g) \cup Mentioned(h) : GetItem(g, n) = GetItem(h, n)

\* Every node that is the source or the target of a stored edge.
Appeared(g) == {k \in DOMAIN g : g[k] # <<>>} \cup Targets(g)

\* All walks of exactly k edges from n to t, each given by the positions of its
\* edges within the adjacency lists of the nodes it leaves.
RECURSIVE PosPaths(_, _, _, _)
PosPaths(g, n, t, k) ==
    IF k = 0 THEN (IF n = t THEN {<<>>} ELSE {})
    ELSE UNION {{<<i>> \o r : r \in PosPaths(g, GetItem(g, n)[i][1], t, k - 1)} :
                   i \in DOMAIN GetItem(g, n)}

\* A walk without repeated nodes has fewer edges than the graph has nodes.
MaxHops(g) == Cardinality(Mentioned(g))

\* t is reachable from s along stored edges (s from itself by the empty walk).
Reachable(g, s, t) == \E k \in 0..MaxHops(g) : PosPaths(g, s, t, k) # {}

\* The minimum number of edges over all walks from s to t.
Dist(g, s, t) ==
    CHOOSE k \in 0..MaxHops(g) :
        /\ PosPaths(g, s, t, k) # {}
        /\ \A j \in 0..(k - 1) : PosPaths(g, s, t, j) = {}

\* Lexicographic order on position sequences of one length.
LexLess(p, q) == \E i \in 1..Len(p) : p[i] < q[i] /\ \A j \in 1..(i - 1) : p[j] = q[j]

\* The nodes along the walk from n that takes the edges at positions p.
RECURSIVE NodesAlong(_, _, _)
NodesAlong(g, n, p) ==
    IF p = <<>> THEN <<n>>
    ELSE <<n>> \o NodesAlong(g, GetItem(g, n)[Head(p)][1], Tail(p))

\* The minimum-length walk from s to t whose position sequence is smallest.
LexMinPath(g, s, t) ==
    LET S == PosPaths(g, s, t, Dist(g, s, t))
        best == CHOOSE p \in S : \A q \in S \ {p} : LexLess(p, q)
    IN NodesAlong(g, s, best)

\* The minimum-length walks from s to t, as node sequences.
ShortestNodePaths(g, s, t) == {NodesAlong(g, s, p) : p \in PosPaths(g, s, t, Dist(g, s, t))}

\* p[i+1] is a target in the outgoing-edge list of p[i], for every i.
FollowsEdges(g, p) ==
    \A i \in 1..(Len(p) - 1) : \E j \in DOMAIN GetItem(g, p[i]) : GetItem(g, p[i])[j][1] = p[i + 1]

NoRepeats(p) == \A i, j \in DOMAIN p : p[i] = p[j] => i = j

Range(f) == {f[i] : i \in DOMAIN f}

\* ------------------------------------------------------------------ claims

\* C1: for every node start of the graph and every target reachable from it
\* along stored edges (start itself included, at distance 0), the search returns
\* a path, and the number of its edges is the minimum over all paths from start
\* to target.
C1_ShortestHopCount ==
    (pc = "done" /\ start_node \in Appeared(graph)
        /\ Reachable(graph, start_node, target_node))
    => (~result.isNone
        /\ Len(result.path) - 1 = Dist(graph, start_node, target_node))

\* C2: a returned path is non-empty, begins with start, ends with target, holds
\* no node twice, and each consecutive pair of it is a stored edge.
C2_PathWellFormed ==
    (pc = "done" /\ ~result.isNone)
    => /\ result.path # <<>>
       /\ result.path[1] = start_node
       /\ result.path[Len(result.path)] = target_node
       /\ NoRepeats(result.path)
       /\ FollowsEdges(graph, result.path)

\* C2 witness: a search has returned a path of two edges.
C2_Witness ==
    pc = "done" /\ ~result.isNone /\ Len(result.path) = 3

\* C3: no step of a search changes the adjacency mapping, its set of keys
\* included.
C3_SearchLeavesGraphUnchanged ==
    [][~(pc = "idle" /\ pc' = "idle") => graph' = graph]_vars

\* C4: with no edge inserted in between, a search returns what an earlier search
\* of the same start and target returned, whatever was searched meanwhile.
C4_Deterministic ==
    pc = "done"
    => \A m \in memo : (m.s = start_node /\ m.t = target_node) => m.res = result

\* C5: the search takes the unknown-start outcome exactly when start is neither
\* the source nor the target of any inserted edge.
C5_UnknownStartIff ==
    pc = "done" => (outcome = "unknown_start" <=> start_node \notin Appeared(graph))

\* C6: for every start node that is the source or the target of a stored edge,
\* when target is not reachable from start along stored edges, the search ends
\* in the no-path branch, after the queue has emptied, and returns None, never
\* a path.
C6_NoPathWhenUnreachable ==
    (pc = "done" /\ start_node \in Appeared(graph)
        /\ ~Reachable(graph, start_node, target_node))
    => /\ result = None
       /\ outcome = "no_path"
       /\ queue = <<>>

\* C7: add_attack_step(source, target, exploit) appends (target, exploit) at the
\* end of source's outgoing-edge sequence, which grows by exactly one whether or
\* not the same entry is already stored; the earlier entries keep their order
\* and the sequences of all other nodes are unchanged.
C7_AppendsExactlyOne ==
    [][(pc = "idle" /\ pc' = "idle") =>
       \A s \in AddNodes, t \in AddNodes, x \in Exploits :
          add_attack_step(s, t, x)
          => /\ GetItem(graph', s) = Append(GetItem(graph, s), <<t, x>>)
             /\ Len(GetItem(graph', s)) = Len(GetItem(graph, s)) + 1
             /\ \A n \in (Mentioned(graph) \cup Mentioned(graph') \cup {Stranger}) \ {s} :
                    GetItem(graph', n) = GetItem(graph, n)]_vars

\* C7 witness: a node's sequence holds the same (target, exploit) entry twice,
\* after an entry that differs from it.
C7_Witness ==
    \E n \in DOMAIN graph :
        /\ Len(graph[n]) = 3
        /\ graph[n][1] # graph[n][2]
        /\ graph[n][2] = graph[n][3]

\* C8: a search that has entered its loop returns, on graphs with cycles and
\* self-loops too; and a search from a node to itself, the node having a
\* self-loop, returns the single-node path.
C8_Terminates ==
    /\ (pc = "loop") ~> (pc = "done")
    /\ [](  (/\ pc = "done"
             /\ start_node = target_node
             /\ \E i \in DOMAIN GetItem(graph, start_node) :
                    GetItem(graph, start_node)[i][1] = start_node)
          => result = Some(<<start_node>>))

\* C8 witness: the graph holds the self-loop A->A and a search from A to A has
\* returned [A].
C8_Witness ==
    /\ pc = "done"
    /\ start_node = "A"
    /\ target_node = "A"
    /\ \E i \in DOMAIN GetItem(graph, "A") : GetItem(graph, "A")[i][1] = "A"
    /\ result = Some(<<"A">>)

\* C9: when target is reachable from start by at least one edge, the returned
\* path is the minimum-length path whose sequence of edge insertion positions is
\* lexicographically smallest; in the sample topology, from Internet to
\* Database_SQL, it is [Internet, WebServer, AppServer, Database_SQL].
C9_TieBreak ==
    /\ (pc = "done" /\ start_node \in Appeared(graph)
           /\ Reachable(graph, start_node, target_node)
           /\ Dist(graph, start_node, target_node) >= 1)
       => result = Some(LexMinPath(graph, start_node, target_node))
    /\ (pc = "done" /\ SameEdges(graph, SampleGraph)
           /\ start_node = "Internet" /\ target_node = "Database_SQL")
       => result = Some(<<"Internet", "WebServer", "AppServer", "Database_SQL">>)

\* C9 witness: a search has returned a path between two nodes joined by several
\* minimum-length paths.
C9_Witness ==
    /\ pc = "done"
    /\ ~result.isNone
    /\ Len(result.path) >= 3
    /\ Cardinality(ShortestNodePaths(graph, start_node, target_node)) >= 2

\* C10: while a search runs, the visited set holds start and the last node of
\* every path enqueued so far, no node is the last node of two enqueued paths,
\* and every path in the queue begins with start.
C10_VisitedInvariant ==
    pc = "loop"
    => /\ start_node \in visited
       /\ Range(enqueued) = visited
       /\ NoRepeats(enqueued)
       /\ \A i \in DOMAIN queue : queue[i][1] = start_node

\* C10 witness: the start node has two parallel edges to one neighbour, it has
\* been dequeued and explored, and the neighbour was enqueued once.
C10_Witness ==
    /\ pc = "loop"
    /\ Len(GetItem(graph, start_node)) >= 2
    /\ GetItem(graph, start_node)[1][1] = GetItem(graph, start_node)[2][1]
    /\ GetItem(graph, start_node)[1][1] # start_node
    /\ Len(enqueued) = 2
    /\ Len(queue) = 1

====
